---------------------------- MODULE Spec2Model ----------------------------
(***************************************************************************)
(* A model of the suite rules of robotframework-lint                       *)
(* (rflint/rules/suiteRules.py).                                           *)
(*                                                                         *)
(* A Python string is a sequence of one-character strings, so that         *)
(* replace, lower, strip and the regular expression of InvalidTable act    *)
(* on characters.  A suite is the parsed document the rules read; every    *)
(* rule's apply is one action that reads the suite and appends the list    *)
(* of violations it reported, in the order of the report calls, to         *)
(* out[rule].                                                              *)
(***************************************************************************)
EXTENDS Integers, Sequences, FiniteSets, TLC

VARIABLES
    suite,   \* the parsed suite the driver currently holds
    out,     \* out[rule]: one list of reported violations per apply call on suite
    cache,   \* cache[rule]: the list last bound to the local `cache` of a duplicate rule
    similar_testcases,  \* the set last bound to the local of TestCasesTooSimilar.apply,
                        \* as positions in the list of test cases it was applied to
    earlier, \* the rules that were applied to a suite loaded before the current one
    loads,   \* number of suites the driver has loaded so far
    calls    \* number of apply calls the driver has made so far

vars == <<suite, out, cache, similar_testcases, earlier, loads, calls>>

----------------------------------------------------------------------------
(* Bounds of the model.                                                    *)

MaxEntities == 3    \* keywords / test cases of a suite of the duplicate rules
MaxTables == 2      \* tables of a suite
MaxTests == 3       \* test cases of a suite of TestCasesTooSimilar
MaxCalls == 2       \* apply calls of one run
MaxLoads == 2       \* suites loaded one after the other

----------------------------------------------------------------------------
(* Strings.                                                                *)

UpperCase == <<"A", "B", "C", "D", "E", "F", "G", "H", "I", "J", "K", "L", "M", "N", "O", "P", "Q", "R", "S", "T", "U", "V", "W", "X", "Y", "Z">>
LowerCase == <<"a", "b", "c", "d", "e", "f", "g", "h", "i", "j", "k", "l", "m", "n", "o", "p", "q", "r", "s", "t", "u", "v", "w", "x", "y", "z">>

\* str.lower() on one character.
LowerChar(c) ==
    IF \E i \in 1..Len(UpperCase) : UpperCase[i] = c
    THEN LowerCase[CHOOSE i \in 1..Len(UpperCase) : UpperCase[i] = c]
    ELSE c

\* str.upper() on one character (used to build inputs in other letter cases).
UpperChar(c) ==
    IF \E i \in 1..Len(LowerCase) : LowerCase[i] = c
    THEN UpperCase[CHOOSE i \in 1..Len(LowerCase) : LowerCase[i] = c]
    ELSE c

\* string.lower()
StrLower(s) == [i \in 1..Len(s) |-> LowerChar(s[i])]

StrUpper(s) == [i \in 1..Len(s) |-> UpperChar(s[i])]

Capitalize(s) == [i \in 1..Len(s) |-> IF i = 1 THEN UpperChar(s[i]) ELSE s[i]]

\* string.replace(old, new) for a one-character old.
RECURSIVE StrReplace(_, _, _)
StrReplace(s, old, new) ==
    IF s = <<>> THEN <<>>
    ELSE (IF Head(s) = old THEN new ELSE <<Head(s)>>)
         \o StrReplace(Tail(s), old, new)

\* x in list
InSeq(x, list) == \E i \in 1..Len(list) : list[i] = x

\* ''.join(parts)
RECURSIVE Join(_)
Join(parts) ==
    IF parts = <<>> THEN <<>> ELSE Head(parts) \o Join(Tail(parts))

\* All sequences over S of length at most n.
SeqsUpTo(S, n) == UNION {[1..k -> S] : k \in 0..n}

\* A normalize_name that leaves the underscores in.
normalize_nameNoUnderscore(string) ==
    StrLower(StrReplace(string, " ", <<>>))

\* normalize_name: convert to lowercase, remove spaces and underscores.
normalize_name(string) ==
    StrLower(StrReplace(StrReplace(string, " ", <<>>), "_", <<>>))

----------------------------------------------------------------------------
(* The rules, their severities and the reporter.                           *)

Rules == {"PeriodInSuiteName", "InvalidTable", "DuplicateKeywordNames",
          "DuplicateTestNames", "RequireSuiteDocumentation",
          "TestCasesTooSimilar"}

\* The class attribute `severity` of each rule.
severity(rule) ==
    IF rule \in {"DuplicateKeywordNames", "DuplicateTestNames"}
    THEN "ERROR" ELSE "WARNING"

\* SuiteRule.report(suite, message, linenumber): the violation record handed
\* to the reporter.  A message is its format text and the values put in it.
report(rule, text, args, linenumber) ==
    [rule |-> rule, severity |-> severity(rule),
     message |-> [text |-> text, args |-> args], linenumber |-> linenumber]

----------------------------------------------------------------------------
(* The duplicate-name rules.                                               *)

\* A cache kept on the rule object: a call goes on with the list of the last one.
NewCachePersisting(old) == old

\* cache = []  (a new list in every call; old is the list of the last call)
NewCache(old) == <<>>

\* The loop of DuplicateKeywordNames.apply and DuplicateTestNames.apply over
\* entities[i..]: the violations reported and the final cache.
RECURSIVE DuplicateLoop(_, _, _, _, _, _)
DuplicateLoop(rule, text, entities, i, seen, reported) ==
    IF i > Len(entities) THEN [reported |-> reported, cache |-> seen]
    ELSE LET name == normalize_name(entities[i].name)
         IN  DuplicateLoop(rule, text, entities, i + 1, Append(seen, name),
                 IF InSeq(name, seen)
                 THEN Append(reported,
                             report(rule, text, <<entities[i].name>>,
                                    entities[i].linenumber))
                 ELSE reported)

----------------------------------------------------------------------------
(* InvalidTable.                                                           *)

\* The alternatives of the pattern
\*   settings?|metadata|(test )?cases?|(user )?keywords?|variables?
\* each an optional leading group, a literal and an optional final "s".
PatternAlternatives ==
    { [group |-> <<>>,      literal |-> <<"s", "e", "t", "t", "i", "n", "g">>,  s |-> TRUE],
      [group |-> <<>>,      literal |-> <<"m", "e", "t", "a", "d", "a", "t", "a">>, s |-> FALSE],
      [group |-> <<"t", "e", "s", "t", " ">>,  literal |-> <<"c", "a", "s", "e">>,     s |-> TRUE],
      [group |-> <<"u", "s", "e", "r", " ">>,  literal |-> <<"k", "e", "y", "w", "o", "r", "d">>,  s |-> TRUE],
      [group |-> <<>>,      literal |-> <<"v", "a", "r", "i", "a", "b", "l", "e">>, s |-> TRUE] }

\* The strings the pattern matches in full.
PatternWords ==
    UNION { { g \o alt.literal \o e :
                g \in {<<>>, alt.group},
                e \in (IF alt.s THEN {<<>>, <<"s">>} ELSE {<<>>}) } :
            alt \in PatternAlternatives }

\* re.match(pattern, string, re.IGNORECASE) is not None: the pattern matches
\* at the start of the string, that is, some prefix of it.
re_match(string) ==
    \E k \in 0..Len(string) : StrLower(SubSeq(string, 1, k)) \in PatternWords

\* A loop that puts each new violation in front of the ones before.
RECURSIVE InvalidTableLoopPrepending(_, _, _)
InvalidTableLoopPrepending(tables, i, reported) ==
    IF i > Len(tables) THEN reported
    ELSE InvalidTableLoopPrepending(tables, i + 1,
             IF ~re_match(tables[i].name)
             THEN <<report("InvalidTable", "Unknown table name '%s'",
                           <<tables[i].name>>, tables[i].linenumber)>>
                  \o reported
             ELSE reported)

\* The loop of InvalidTable.apply over tables[i..].
RECURSIVE InvalidTableLoop(_, _, _)
InvalidTableLoop(tables, i, reported) ==
    IF i > Len(tables) THEN reported
    ELSE InvalidTableLoop(tables, i + 1,
             IF ~re_match(tables[i].name)
             THEN Append(reported,
                         report("InvalidTable", "Unknown table name '%s'",
                                <<tables[i].name>>, tables[i].linenumber))
             ELSE reported)

----------------------------------------------------------------------------
(* PeriodInSuiteName and RequireSuiteDocumentation.                        *)

\* PeriodInSuiteName.apply
PeriodInSuiteNameResult(name) ==
    IF InSeq(".", name)
    THEN <<report("PeriodInSuiteName", "'.' in suite name '%s'", <<name>>, 0)>>
    ELSE <<>>

\* The first loop of RequireSuiteDocumentation.apply returns: some row of
\* some SettingTable has the first cell "documentation" in any letter case.
FoundDocumentation(tables) ==
    \E i \in 1..Len(tables) :
        /\ tables[i].isSettingTable
        /\ \E r \in 1..Len(tables[i].rows) :
               StrLower(tables[i].rows[r][1]) = <<"d", "o", "c", "u", "m", "e", "n", "t", "a", "t", "i", "o", "n">>

\* A second loop without its break: the line after the last SettingTable's.
LineNumberOfLastSettingTable(tables) ==
    LET settings == {i \in 1..Len(tables) : tables[i].isSettingTable}
    IN  IF settings = {} THEN 1
        ELSE tables[CHOOSE i \in settings : \A j \in settings : j <= i].linenumber + 1

\* The second loop: the line after the first SettingTable's, 1 by default.
LineNumber(tables) ==
    LET settings == {i \in 1..Len(tables) : tables[i].isSettingTable}
    IN  IF settings = {} THEN 1
        ELSE tables[CHOOSE i \in settings : \A j \in settings : i <= j].linenumber + 1

RequireSuiteDocumentationResult(tables) ==
    IF FoundDocumentation(tables) THEN <<>>
    ELSE <<report("RequireSuiteDocumentation", "No suite documentation", <<>>,
                  LineNumber(tables))>>

----------------------------------------------------------------------------
(* difflib.SequenceMatcher, as TestCasesTooSimilar uses it: no junk        *)
(* function, autojunk on.  Indices are Python's: At0(a, i) is a[i].        *)

At0(a, i) == a[i + 1]

Count(a, c) == Cardinality({i \in 1..Len(a) : a[i] = c})

\* __chain_b: with 200 or more elements in b, an element that fills more
\* than 1% of b (plus one) is popular and gets no entry in b2j.
Popular(b, c) == Len(b) >= 200 /\ Count(b, c) > Len(b) \div 100 + 1

\* j2len[j] after row i of find_longest_match: the length of the run of
\* equal, indexed elements that ends at a[i], b[j] within the window.
RECURSIVE RunLength(_, _, _, _, _, _)
RunLength(a, b, i, j, alo, blo) ==
    IF i < alo \/ j < blo THEN 0
    ELSE IF At0(a, i) # At0(b, j) \/ Popular(b, At0(b, j)) THEN 0
    ELSE 1 + RunLength(a, b, i - 1, j - 1, alo, blo)

\* The two loops that extend a match over elements without an index entry.
RECURSIVE ExtendBack(_, _, _, _, _)
ExtendBack(a, b, m, alo, blo) ==
    IF m.i > alo /\ m.j > blo /\ At0(a, m.i - 1) = At0(b, m.j - 1)
    THEN ExtendBack(a, b, [i |-> m.i - 1, j |-> m.j - 1, k |-> m.k + 1], alo, blo)
    ELSE m

RECURSIVE ExtendForward(_, _, _, _, _)
ExtendForward(a, b, m, ahi, bhi) ==
    IF m.i + m.k < ahi /\ m.j + m.k < bhi /\ At0(a, m.i + m.k) = At0(b, m.j + m.k)
    THEN ExtendForward(a, b, [m EXCEPT !.k = m.k + 1], ahi, bhi)
    ELSE m

\* find_longest_match(alo, ahi, blo, bhi): the first longest run in the
\* order of the scan (a's index, then b's), then extended.
find_longest_match(a, b, alo, ahi, blo, bhi) ==
    LET ends == {e \in (alo..(ahi - 1)) \X (blo..(bhi - 1)) :
                     RunLength(a, b, e[1], e[2], alo, blo) > 0}
        len(e) == RunLength(a, b, e[1], e[2], alo, blo)
        before(e, f) == e[1] < f[1] \/ (e[1] = f[1] /\ e[2] < f[2])
        best == CHOOSE e \in ends :
                    \A f \in ends \ {e} :
                        len(f) < len(e) \/ (len(f) = len(e) /\ before(e, f))
        found == IF ends = {} THEN [i |-> alo, j |-> blo, k |-> 0]
                 ELSE [i |-> best[1] - len(best) + 1,
                       j |-> best[2] - len(best) + 1, k |-> len(best)]
    IN  ExtendForward(a, b, ExtendBack(a, b, found, alo, blo), ahi, bhi)

\* get_matching_blocks: the total size of the matching blocks of the window.
RECURSIVE MatchingSize(_, _, _, _, _, _)
MatchingSize(a, b, alo, ahi, blo, bhi) ==
    LET m == find_longest_match(a, b, alo, ahi, blo, bhi)
    IN  IF m.k = 0 THEN 0
        ELSE m.k
             + (IF alo < m.i /\ blo < m.j
                THEN MatchingSize(a, b, alo, m.i, blo, m.j) ELSE 0)
             + (IF m.i + m.k < ahi /\ m.j + m.k < bhi
                THEN MatchingSize(a, b, m.i + m.k, ahi, m.j + m.k, bhi) ELSE 0)

\* The matches each of the three ratios is computed from.
ratio_matches(a, b) == MatchingSize(a, b, 0, Len(a), 0, Len(b))

Min(m, n) == IF m <= n THEN m ELSE n

\* An overlap that counts each shared element once.
quick_ratio_matchesDistinct(a, b) ==
    Cardinality({a[i] : i \in 1..Len(a)} \cap {b[j] : j \in 1..Len(b)})

\* The elements of a that find a partner in b, each element of b used once.
RECURSIVE Overlap(_, _, _)
Overlap(elements, a, b) ==
    IF elements = {} THEN 0
    ELSE LET c == CHOOSE c \in elements : TRUE
         IN  Min(Count(a, c), Count(b, c)) + Overlap(elements \ {c}, a, b)

quick_ratio_matches(a, b) == Overlap({a[i] : i \in 1..Len(a)}, a, b)

real_quick_ratio_matches(a, b) == Min(Len(a), Len(b))

\* max_similarity = .9, as a fraction.
max_similarity == [num |-> 9, den |-> 10]

\* _calculate_ratio(matches, length) < self.max_similarity, where the ratio
\* is 2.0 * matches / length, and 1.0 for an empty pair.
BelowMax(matches, length) ==
    length > 0 /\ 2 * matches * max_similarity.den < max_similarity.num * length

----------------------------------------------------------------------------
(* TestCasesTooSimilar.                                                    *)

\* The characters strip() removes, as far as the inputs use them.
Whitespace == {" ", "\t", "\n", "\r"}

\* string.strip()
RECURSIVE StrStrip(_)
StrStrip(s) ==
    IF s = <<>> THEN s
    ELSE IF Head(s) \in Whitespace THEN StrStrip(Tail(s))
    ELSE IF s[Len(s)] \in Whitespace THEN StrStrip(SubSeq(s, 1, Len(s) - 1))
    ELSE s

\* TestCasesTooSimilar.normalize
normalize(string) == StrReplace(StrStrip(StrLower(string)), " ", <<>>)

\* normalize(''.join([''.join(step) for step in testcase.steps]))
StepText(testcase) ==
    normalize(Join([n \in 1..Len(testcase.steps) |-> Join(testcase.steps[n])]))

\* A list of test cases that keeps the templated ones.
AllPositions(testcases) == 1..Len(testcases)

\* The positions of the test cases that are compared: the ones not templated.
NotTemplated(testcases) ==
    {i \in 1..Len(testcases) : ~testcases[i].is_templated}

\* itertools.combinations(testcases, 2)
Combinations(positions) ==
    {pair \in positions \X positions : pair[1] < pair[2]}

\* The test of one pair: a is the second test case's text, b the first's.
\* The pair is skipped as soon as one of the three ratios is below the maximum.
Skipped(first, second) ==
    LET a == StepText(second)
        b == StepText(first)
        length == Len(a) + Len(b)
    IN  \/ BelowMax(real_quick_ratio_matches(a, b), length)
        \/ BelowMax(quick_ratio_matches(a, b), length)
        \/ BelowMax(ratio_matches(a, b), length)

\* A loop that adds only the first test case of a similar pair.
SimilarFirstOfPairOnly(testcases) ==
    {pair[1] : pair \in {p \in Combinations(NotTemplated(testcases)) :
                            ~Skipped(testcases[p[1]], testcases[p[2]])}}

\* similar_testcases at the end of the loop over the pairs.
Similar(testcases) ==
    UNION { {pair[1], pair[2]} :
              pair \in {p \in Combinations(NotTemplated(testcases)) :
                           ~Skipped(testcases[p[1]], testcases[p[2]])} }

\* The orders in which a set may be iterated.
Orders(S) ==
    {f \in [1..Cardinality(S) -> S] : \A m, n \in DOMAIN f : m # n => f[m] # f[n]}

----------------------------------------------------------------------------
(* Suites.                                                                 *)

Keyword(name, line) == [name |-> name, linenumber |-> line]

TestCase(name, line, templated, steps) ==
    [name |-> name, linenumber |-> line, is_templated |-> templated,
     steps |-> steps]

Table(name, line, isSetting, rows) ==
    [name |-> name, linenumber |-> line, isSettingTable |-> isSetting,
     rows |-> rows]

Suite(name, tables, keywords, testcases) ==
    [name |-> name, tables |-> tables, keywords |-> keywords,
     testcases |-> testcases]

\* Names a keyword or a test case may carry.
NamePool == {<<"A", "b">>, <<"a", " ", "b">>, <<"a", "_", "B">>, <<"a", "b">>, <<"b">>, <<"B", "_">>}

KeywordsNamed(names) ==
    [i \in 1..Len(names) |-> Keyword(names[i], 10 + 3 * i)]

TestCasesNamed(names) ==
    [i \in 1..Len(names) |-> TestCase(names[i], 30 + 4 * i, FALSE, <<>>)]

DuplicateSuites ==
    {Suite(<<"N", "a", "m", "e", "s">>, <<>>, KeywordsNamed(n), <<>>) :
        n \in SeqsUpTo(NamePool, MaxEntities)}
    \cup
    {Suite(<<"N", "a", "m", "e", "s">>, <<>>, <<>>, TestCasesNamed(n)) :
        n \in SeqsUpTo(NamePool, MaxEntities)}

\* Table names: the headers the rule is documented to accept, misspellings,
\* and valid headers followed by more characters, in three letter cases.
TableNamesLower ==
    {<<"s", "e", "t", "t", "i", "n", "g", "s">>, <<"s", "e", "t", "t", "i", "n", "g">>, <<"m", "e", "t", "a", "d", "a", "t", "a">>, <<"t", "e", "s", "t", " ", "c", "a", "s", "e">>, <<"t", "e", "s", "t", " ", "c", "a", "s", "e", "s">>,
     <<"t", "e", "s", "t", "c", "a", "s", "e">>, <<"t", "e", "s", "t", "c", "a", "s", "e", "s">>, <<"c", "a", "s", "e">>, <<"c", "a", "s", "e", "s">>, <<"u", "s", "e", "r", " ", "k", "e", "y", "w", "o", "r", "d">>,
     <<"u", "s", "e", "r", " ", "k", "e", "y", "w", "o", "r", "d", "s">>, <<"k", "e", "y", "w", "o", "r", "d">>, <<"k", "e", "y", "w", "o", "r", "d", "s">>, <<"v", "a", "r", "i", "a", "b", "l", "e">>, <<"v", "a", "r", "i", "a", "b", "l", "e", "s">>,
     <<"s", "e", "t", "i", "n", "g", "s">>, <<"p", "r", "o", "c", "e", "d", "u", "r", "e">>, <<"s", "e", "t", "t", "i", "n", "g", "s", "x">>, <<"k", "e", "y", "w", "o", "r", "d", "s", " ", "a", "n", "d", " ", "m", "o", "r", "e">>,
     <<"c", "o", "m", "m", "e", "n", "t", "s">>}

TableNames ==
    TableNamesLower \cup {StrUpper(n) : n \in TableNamesLower}
                    \cup {Capitalize(n) : n \in TableNamesLower}

FewTableNames == {<<"S", "e", "t", "t", "i", "n", "g", "s">>, <<"S", "e", "t", "i", "n", "g", "s">>, <<"P", "r", "o", "c", "e", "d", "u", "r", "e">>, <<"T", "e", "s", "t", " ", "C", "a", "s", "e", "s">>}

TablesNamed(names) ==
    [i \in 1..Len(names) |-> Table(names[i], 5 * i - 4, FALSE, <<>>)]

TableSuites ==
    {Suite(<<"T", "a", "b", "l", "e", "s">>, TablesNamed(<<n>>), <<>>, <<>>) : n \in TableNames}
    \cup
    {Suite(<<"T", "a", "b", "l", "e", "s">>, TablesNamed(n), <<>>, <<>>) :
        n \in SeqsUpTo(FewTableNames, MaxTables)}

\* Rows of a table: none, a documentation row, one after another row and in
\* another letter case, the word in a second cell, and a test case's own
\* [Documentation] setting.
RowsPool ==
    { <<>>,
      << <<<<"D", "o", "c", "u", "m", "e", "n", "t", "a", "t", "i", "o", "n">>, <<"x">>>> >>,
      << <<<<"L", "i", "b", "r", "a", "r", "y">>, <<"x">>>>, <<<<"D", "O", "C", "U", "M", "E", "N", "T", "A", "T", "I", "O", "N">>>> >>,
      << <<<<"L", "i", "b", "r", "a", "r", "y">>, <<"D", "o", "c", "u", "m", "e", "n", "t", "a", "t", "i", "o", "n">>>> >>,
      << <<<<"[", "D", "o", "c", "u", "m", "e", "n", "t", "a", "t", "i", "o", "n", "]">>, <<"x">>>> >> }

TableKinds == { [name |-> <<"S", "e", "t", "t", "i", "n", "g", "s">>, isSetting |-> TRUE],
                [name |-> <<"T", "e", "s", "t", " ", "C", "a", "s", "e", "s">>, isSetting |-> FALSE] }

TablesOf(shapes) ==
    [i \in 1..Len(shapes) |->
        Table(shapes[i][1].name, 5 * i - 4, shapes[i][1].isSetting, shapes[i][2])]

DocumentationSuites ==
    {Suite(<<"D", "o", "c">>, TablesOf(t), <<>>, <<>>) :
        t \in SeqsUpTo(TableKinds \X RowsPool, MaxTables)}

\* Test cases for TestCasesTooSimilar: name, is_templated and steps.  The
\* step texts normalize to abcdefghij, to texts that share 9 and 8 of its
\* 10 characters, to its reverse, to a prefix, to a text with a tab inside,
\* to texts of repeated and of other characters, and to the empty text.
Body(name, templated, steps) ==
    [name |-> name, is_templated |-> templated, steps |-> steps]

TestCasePool ==
    { Body(<<"T", "1">>,  FALSE, << <<<<"A", "b", "c", " ", "D", "e">>>>, <<<<"f", "g", "h">>, <<"i", "j", " ">>>> >>),
      Body(<<"T", "2">>,  FALSE, << <<<<"a", "b", "c", "d", "e">>, <<"f", "g", "h", "i", "x">>>> >>),
      Body(<<"T", "3">>,  FALSE, << <<<<"a", "b", "c", "d", "e", "f", "g", "h">>>>, <<<<"x", "y">>>> >>),
      Body(<<"T", "4">>,  FALSE, << <<<<"j", "i", "h", "g", "f">>>>, <<<<"e", "d", "c", "b", "a">>>> >>),
      Body(<<"T", "5">>,  FALSE, << <<<<"\t", "A", " ", "B", " ">>, <<"c", "d", "e", "f", "g", "h", "i">>>> >>),
      Body(<<"T", "6">>,  FALSE, << <<<<"a", "b", "c", "d", "e", "\t", "f", "g", "h", "i">>>> >>),
      Body(<<"T", "7">>,  FALSE, << <<<<"a", "a", "b", "b", "c", "c", "d", "d", "e", "e">>>> >>),
      Body(<<"T", "8">>,  FALSE, << <<<<"k", "l", "m", "n", "o">>>>, <<<<"p", "q", "r", "s", "t">>>> >>),
      Body(<<"T", "9">>,  FALSE, << <<<<"a", "b">>>> >>),
      Body(<<"T", "1", "0">>, FALSE, <<>>),
      Body(<<"T", "1", "1">>, FALSE, << <<<<" ">>>>, <<<<"\t">>>> >>),
      Body(<<"T", "1", "2">>, TRUE,  << <<<<"a", "b", "c", "d", "e", "f", "g", "h", "i", "j">>>> >>),
      Body(<<"T", "1", "3">>, TRUE,  <<>>) }

\* Short test cases, two of them with one name, for the longer suites.
ShortTestCasePool ==
    { Body(<<"S", "1">>, FALSE, << <<<<"a", "b">>>> >>),
      Body(<<"S", "1">>, FALSE, << <<<<"A", " ", "b">>>> >>),
      Body(<<"S", "2">>, FALSE, << <<<<"x", "y">>>> >>),
      Body(<<"S", "3">>, TRUE,  << <<<<"a", "b">>>> >>) }

TestCasesOf(bodies) ==
    [i \in 1..Len(bodies) |->
        TestCase(bodies[i].name, 30 + 4 * i, bodies[i].is_templated,
                 bodies[i].steps)]

SimilarSuites ==
    {Suite(<<"T", "e", "s", "t", "s">>, <<>>, <<>>, TestCasesOf(b)) : b \in SeqsUpTo(TestCasePool, 2)}
    \cup
    {Suite(<<"T", "e", "s", "t", "s">>, <<>>, <<>>, TestCasesOf(b)) :
        b \in SeqsUpTo(ShortTestCasePool, MaxTests)}

\* Whole suites for the full rule set: two names, two lists of tables, of
\* keywords and of test cases, in every combination.
WholeSuites ==
    { Suite(name, tables, keywords, testcases) :
        name \in {<<"M", "y", ".", "S", "u", "i", "t", "e">>, <<"M", "y", "S", "u", "i", "t", "e">>},
        tables \in { << Table(<<"S", "e", "t", "t", "i", "n", "g", "s">>, 1, TRUE, << <<<<"D", "o", "c", "u", "m", "e", "n", "t", "a", "t", "i", "o", "n">>, <<"x">>>> >>),
                        Table(<<"T", "e", "s", "t", " ", "C", "a", "s", "e", "s">>, 6, FALSE, <<>>) >>,
                     << Table(<<"S", "e", "t", "i", "n", "g", "s">>, 1, FALSE, <<>>),
                        Table(<<"S", "e", "t", "t", "i", "n", "g", "s">>, 6, TRUE, <<>>) >> },
        keywords \in { KeywordsNamed(<<<<"a", " ", "b">>, <<"a", "_", "B">>>>), KeywordsNamed(<<<<"a", "b">>>>) },
        testcases \in { TestCasesOf(<<Body(<<"T", " ", "a">>, FALSE, << <<<<"L", "o", "g">>, <<"x">>>> >>),
                                      Body(<<"T", " ", "b">>, FALSE, << <<<<"l", "o", "g", " ">>>>, <<<<"X">>>> >>)>>),
                        TestCasesOf(<<Body(<<"t", "_", "A">>, FALSE, << <<<<"x", "y">>>> >>)>>) } }

----------------------------------------------------------------------------
(* The actions.                                                            *)

InitWith(pool) ==
    /\ suite \in pool
    /\ out = [r \in Rules |-> <<>>]
    /\ cache = [r \in {"DuplicateKeywordNames", "DuplicateTestNames"} |-> <<>>]
    /\ similar_testcases = {}
    /\ earlier = {}
    /\ loads = 1
    /\ calls = 0

DuplicateKeywordNames_apply ==
    /\ calls < MaxCalls
    /\ calls' = calls + 1
    /\ LET r == DuplicateLoop("DuplicateKeywordNames", "Duplicate keyword name '%s'",
                              suite.keywords, 1,
                              NewCache(cache["DuplicateKeywordNames"]), <<>>)
       IN  /\ out' = [out EXCEPT !["DuplicateKeywordNames"] = Append(@, r.reported)]
           /\ cache' = [cache EXCEPT !["DuplicateKeywordNames"] = r.cache]
    /\ UNCHANGED <<suite, similar_testcases, earlier, loads>>

DuplicateTestNames_apply ==
    /\ calls < MaxCalls
    /\ calls' = calls + 1
    /\ LET r == DuplicateLoop("DuplicateTestNames", "Duplicate testcase name '%s'",
                              suite.testcases, 1,
                              NewCache(cache["DuplicateTestNames"]), <<>>)
       IN  /\ out' = [out EXCEPT !["DuplicateTestNames"] = Append(@, r.reported)]
           /\ cache' = [cache EXCEPT !["DuplicateTestNames"] = r.cache]
    /\ UNCHANGED <<suite, similar_testcases, earlier, loads>>

InvalidTable_apply ==
    /\ calls < MaxCalls
    /\ calls' = calls + 1
    /\ out' = [out EXCEPT !["InvalidTable"] =
                   Append(@, InvalidTableLoop(suite.tables, 1, <<>>))]
    /\ UNCHANGED <<suite, cache, similar_testcases, earlier, loads>>

InitEntities == InitWith(DuplicateSuites \cup TableSuites)

NextEntities ==
    \/ InvalidTable_apply
    \/ DuplicateKeywordNames_apply
    \/ DuplicateTestNames_apply

\* The three rules that scan a list of named entities.
SpecEntities == InitEntities /\ [][NextEntities]_vars

PeriodInSuiteName_apply ==
    /\ calls < MaxCalls
    /\ calls' = calls + 1
    /\ out' = [out EXCEPT !["PeriodInSuiteName"] =
                   Append(@, PeriodInSuiteNameResult(suite.name))]
    /\ UNCHANGED <<suite, cache, similar_testcases, earlier, loads>>

RequireSuiteDocumentation_apply ==
    /\ calls < MaxCalls
    /\ calls' = calls + 1
    /\ out' = [out EXCEPT !["RequireSuiteDocumentation"] =
                   Append(@, RequireSuiteDocumentationResult(suite.tables))]
    /\ UNCHANGED <<suite, cache, similar_testcases, earlier, loads>>

InitDocumentation == InitWith(DocumentationSuites)

NextDocumentation == RequireSuiteDocumentation_apply

SpecDocumentation == InitDocumentation /\ [][NextDocumentation]_vars

\* The violation names the similar test cases and carries the line of the
\* first of them, both in the iteration order of a set.  Python leaves that
\* order open (it follows the hashes of the objects and of the names, which
\* differ from one run of the tool to the next), so a call may meet any order.
TestCasesTooSimilar_apply ==
    /\ calls < MaxCalls
    /\ calls' = calls + 1
    /\ LET similar == Similar(suite.testcases)
           similar_testcase_names == {suite.testcases[i].name : i \in similar}
       IN  /\ similar_testcases' = similar
           /\ IF similar = {}
              THEN out' = [out EXCEPT !["TestCasesTooSimilar"] = Append(@, <<>>)]
              ELSE \E first \in similar, names \in Orders(similar_testcase_names) :
                     out' = [out EXCEPT !["TestCasesTooSimilar"] =
                               Append(@, <<report("TestCasesTooSimilar",
                                                  "Similar testcases found: '%s'",
                                                  names,
                                                  suite.testcases[first].linenumber)>>)]
    /\ UNCHANGED <<suite, cache, earlier, loads>>

InitSimilar == InitWith(SimilarSuites)

NextSimilar == TestCasesTooSimilar_apply

SpecSimilar == InitSimilar /\ [][NextSimilar]_vars

\* The driver parses another file and hands the new suite to the same rule
\* objects; the violations collected so far belong to the suite before.
LoadSuite ==
    /\ loads < MaxLoads
    /\ suite' \in WholeSuites
    /\ out' = [r \in Rules |-> <<>>]
    /\ earlier' = earlier \cup {r \in Rules : out[r] # <<>>}
    /\ loads' = loads + 1
    /\ UNCHANGED <<cache, similar_testcases, calls>>

Init == InitWith(WholeSuites)

Next ==
    \/ LoadSuite
    \/ PeriodInSuiteName_apply
    \/ InvalidTable_apply
    \/ DuplicateKeywordNames_apply
    \/ DuplicateTestNames_apply
    \/ RequireSuiteDocumentation_apply
    \/ TestCasesTooSimilar_apply

\* The full rule set, applied in any order and any number of times to the
\* suites of one run.
Spec == Init /\ [][Next]_vars

----------------------------------------------------------------------------
(* Properties.                                                             *)

\* The results of the apply calls of a rule on the current suite.
Results(rule) == {out[rule][n] : n \in 1..Len(out[rule])}

\* The name with every space and every underscore removed, then lowercased.
CanonicalName(name) ==
    StrLower(SelectSeq(name, LAMBDA c : c \notin {" ", "_"}))

\* The violations of result res that carry the line of entity e.
At(res, e) == {p \in 1..Len(res) : res[p].linenumber = e.linenumber}

\* Entity i of the list repeats the canonical name of an earlier entity.
Repeats(entities, i) ==
    \E j \in 1..(i - 1) :
        CanonicalName(entities[j].name) = CanonicalName(entities[i].name)

DuplicatesExact(rule, entities) ==
    \A res \in Results(rule) :
        /\ \A i \in 1..Len(entities) :
              /\ Cardinality(At(res, entities[i]))
                     = IF Repeats(entities, i) THEN 1 ELSE 0
              /\ \A p \in At(res, entities[i]) :
                     res[p].message.args = <<entities[i].name>>
        /\ \A p \in 1..Len(res) :
              \E i \in 1..Len(entities) : p \in At(res, entities[i])
        /\ (\A i \in 1..Len(entities) : ~Repeats(entities, i)) => res = <<>>

\* C1: DuplicateKeywordNames and DuplicateTestNames report entity i, once and
\* at its own line and with its own name, exactly when an earlier entity has
\* the same canonical name; the first occurrence is never reported, and a
\* suite of distinct canonical names yields no violation.
C1_DuplicatesFlaggedExactly ==
    /\ DuplicatesExact("DuplicateKeywordNames", suite.keywords)
    /\ DuplicatesExact("DuplicateTestNames", suite.testcases)

\* Three keywords of one canonical name written three ways: the second and
\* the third are reported, the first is not.
C1_Witness ==
    /\ Len(suite.keywords) = 3
    /\ suite.keywords[1].name = <<"a", "_", "B">>
    /\ suite.keywords[2].name = <<"a", " ", "b">>
    /\ suite.keywords[3].name = <<"A", "b">>
    /\ \E res \in Results("DuplicateKeywordNames") :
          /\ Len(res) = 2
          /\ res[1].linenumber = suite.keywords[2].linenumber
          /\ res[2].linenumber = suite.keywords[3].linenumber

\* The lowercased names that belong to the five families
\* settings/setting, metadata, [test ]case[s], [user ]keyword[s], variable[s].
FamilyNames ==
    {<<"s", "e", "t", "t", "i", "n", "g", "s">>, <<"s", "e", "t", "t", "i", "n", "g">>, <<"m", "e", "t", "a", "d", "a", "t", "a">>, <<"t", "e", "s", "t", " ", "c", "a", "s", "e">>, <<"t", "e", "s", "t", " ", "c", "a", "s", "e", "s">>,
     <<"c", "a", "s", "e">>, <<"c", "a", "s", "e", "s">>, <<"u", "s", "e", "r", " ", "k", "e", "y", "w", "o", "r", "d">>, <<"u", "s", "e", "r", " ", "k", "e", "y", "w", "o", "r", "d", "s">>, <<"k", "e", "y", "w", "o", "r", "d">>,
     <<"k", "e", "y", "w", "o", "r", "d", "s">>, <<"v", "a", "r", "i", "a", "b", "l", "e">>, <<"v", "a", "r", "i", "a", "b", "l", "e", "s">>}

Flagged(res, table) ==
    \E p \in 1..Len(res) :
        /\ res[p].linenumber = table.linenumber
        /\ res[p].message.args = <<table.name>>

\* C2: InvalidTable reports, at the table's line and with its name, every
\* table whose name is not a name of the five families, a valid header
\* followed by more characters included.
C2_EveryUnknownTableFlagged ==
    \A res \in Results("InvalidTable") :
        \A i \in 1..Len(suite.tables) :
            StrLower(suite.tables[i].name) \notin FamilyNames
                => Flagged(res, suite.tables[i])

\* The names the rule is documented never to report.
AcceptedNames ==
    FamilyNames \cup {<<"t", "e", "s", "t", "c", "a", "s", "e">>, <<"t", "e", "s", "t", "c", "a", "s", "e", "s">>}

\* C3: InvalidTable reports no table whose name is, in any letter case, one
\* of settings, setting, metadata, test case(s), testcase(s), case(s),
\* user keyword(s), keyword(s), variable(s).
C3_NoAcceptedTableFlagged ==
    \A res \in Results("InvalidTable") :
        \A i \in 1..Len(suite.tables) :
            StrLower(suite.tables[i].name) \in AcceptedNames
                => ~Flagged(res, suite.tables[i])

\* The position in the list of the entity at a line.
PositionOf(entities, line) ==
    CHOOSE i \in 1..Len(entities) : entities[i].linenumber = line

InSourceOrder(rule, entities) ==
    \A res \in Results(rule) :
        \A p, q \in 1..Len(res) :
            p < q => PositionOf(entities, res[p].linenumber)
                         < PositionOf(entities, res[q].linenumber)

\* C10: within one apply call of InvalidTable, DuplicateKeywordNames or
\* DuplicateTestNames the report calls follow the source order of the
\* entities they refer to.
C10_ReportsInSourceOrder ==
    /\ InSourceOrder("InvalidTable", suite.tables)
    /\ InSourceOrder("DuplicateKeywordNames", suite.keywords)
    /\ InSourceOrder("DuplicateTestNames", suite.testcases)

\* One call of InvalidTable reported two tables, the earlier one first.
C10_Witness ==
    \E res \in Results("InvalidTable") :
        /\ Len(res) = 2
        /\ res[1].linenumber = suite.tables[1].linenumber
        /\ res[2].linenumber = suite.tables[2].linenumber
        /\ suite.tables[1].linenumber < suite.tables[2].linenumber

\* The settings tables of the suite, and whether one of them documents it.
SettingsTables == {i \in 1..Len(suite.tables) : suite.tables[i].isSettingTable}

Documented ==
    \E i \in SettingsTables :
        \E r \in 1..Len(suite.tables[i].rows) :
            StrLower(Head(suite.tables[i].rows[r])) = <<"d", "o", "c", "u", "m", "e", "n", "t", "a", "t", "i", "o", "n">>

\* C7: RequireSuiteDocumentation reports nothing when a row of any settings
\* table starts with "documentation" in any letter case, and otherwise one
\* violation, at the line after the first settings table's, or at line 1
\* when the suite has no settings table (a suite without tables included).
C7_DocumentationRequired ==
    \A res \in Results("RequireSuiteDocumentation") :
        IF Documented THEN res = <<>>
        ELSE /\ Len(res) = 1
             /\ res[1].message.text = "No suite documentation"
             /\ res[1].linenumber =
                    IF SettingsTables = {} THEN 1
                    ELSE LET first == CHOOSE i \in SettingsTables :
                                          \A j \in SettingsTables : i <= j
                         IN  suite.tables[first].linenumber + 1

\* Two settings tables without documentation: one violation, at the line
\* after the first one's.
C7_Witness ==
    /\ Len(suite.tables) = 2
    /\ SettingsTables = {1, 2}
    /\ ~Documented
    /\ \E res \in Results("RequireSuiteDocumentation") :
          Len(res) = 1 /\ res[1].linenumber = suite.tables[1].linenumber + 1

\* The exact ratio 2*M/T of a pair of test cases is at least 0.9, where M
\* is the total size of the matching blocks of the two normalized step
\* texts and T the sum of their lengths; the ratio of two empty texts is 1.
ExactRatioAtLeastNineTenths(first, second) ==
    LET a == StepText(second)
        b == StepText(first)
    IN  \/ Len(a) + Len(b) = 0
        \/ 20 * ratio_matches(a, b) >= 9 * (Len(a) + Len(b))

ExactRatioIsNineTenths(first, second) ==
    LET a == StepText(second)
        b == StepText(first)
    IN  /\ Len(a) + Len(b) > 0
        /\ 20 * ratio_matches(a, b) = 9 * (Len(a) + Len(b))

Compared == {i \in 1..Len(suite.testcases) : ~suite.testcases[i].is_templated}

Templated == {i \in 1..Len(suite.testcases) : suite.testcases[i].is_templated}

\* The pairs of compared test cases whose exact ratio reaches 0.9, and the
\* test cases that belong to one.
SimilarPairs ==
    {pair \in Compared \X Compared :
        /\ pair[1] < pair[2]
        /\ ExactRatioAtLeastNineTenths(suite.testcases[pair[1]],
                                       suite.testcases[pair[2]])}

Implicated == UNION { {pair[1], pair[2]} : pair \in SimilarPairs }

\* C4: the three-stage test declares a pair similar exactly when its exact
\* ratio alone is at least 0.9 (a pair at exactly 0.9 included), so the set
\* of similar test cases a call collects is the one the exact ratio gives.
C4_StagesAgreeWithExactRatio ==
    /\ \A i, j \in 1..Len(suite.testcases) :
          i < j => (~Skipped(suite.testcases[i], suite.testcases[j])
                      <=> ExactRatioAtLeastNineTenths(suite.testcases[i],
                                                      suite.testcases[j]))
    /\ Results("TestCasesTooSimilar") # {} => similar_testcases = Implicated

\* A call declared similar two test cases whose exact ratio is exactly 0.9.
C4_Witness ==
    /\ Results("TestCasesTooSimilar") # {}
    /\ \E i, j \in Compared :
          /\ i < j
          /\ ExactRatioIsNineTenths(suite.testcases[i], suite.testcases[j])
          /\ {i, j} \subseteq similar_testcases

\* C5: a templated test case is never among the similar test cases: no
\* violation carries its line, and every name a violation lists is the
\* name of a test case that is not templated and was found similar.
C5_TemplatedNeverImplicated ==
    /\ similar_testcases \cap Templated = {}
    /\ \A res \in Results("TestCasesTooSimilar") :
          \A p \in 1..Len(res) :
              /\ \A i \in Templated :
                     res[p].linenumber # suite.testcases[i].linenumber
              /\ \A n \in 1..Len(res[p].message.args) :
                     \E i \in similar_testcases \ Templated :
                         suite.testcases[i].name = res[p].message.args[n]

\* A templated test case with the step text of a test case that was found
\* similar to another one: the violation does not name it.
C5_Witness ==
    \E res \in Results("TestCasesTooSimilar") :
        /\ Len(res) = 1
        /\ \E i \in Templated, j \in similar_testcases :
              /\ StepText(suite.testcases[i]) = StepText(suite.testcases[j])
              /\ ~InSeq(suite.testcases[i].name, res[1].message.args)

CharsOf(text) == {text[n] : n \in 1..Len(text)}

NoRepeats(list) == \A m, n \in 1..Len(list) : m # n => list[m] # list[n]

\* C6: a call reports at most one violation, and one exactly when some pair
\* of test cases that are not templated has similarity of at least 0.9; two
\* such test cases with the same normalized step text are both named, two
\* whose texts share no character are not similar; the violation lists each
\* name of the similar test cases once and carries the line of one of them.
C6_OneViolationNamingTheSimilar ==
    \A res \in Results("TestCasesTooSimilar") :
        /\ Len(res) <= 1
        /\ Len(res) = 1 <=> SimilarPairs # {}
        /\ \A i, j \in Compared :
              (i < j /\ StepText(suite.testcases[i]) = StepText(suite.testcases[j]))
                  => /\ Len(res) = 1
                     /\ InSeq(suite.testcases[i].name, res[1].message.args)
                     /\ InSeq(suite.testcases[j].name, res[1].message.args)
        /\ \A i, j \in Compared :
              (/\ i < j
               /\ CharsOf(StepText(suite.testcases[i]))
                      \cap CharsOf(StepText(suite.testcases[j])) = {}
               /\ Len(StepText(suite.testcases[i]))
                      + Len(StepText(suite.testcases[j])) > 0)
                  => /\ <<i, j>> \notin SimilarPairs
                     /\ Compared = {i, j} => res = <<>>
        /\ Len(res) = 1 =>
              /\ res[1].message.text = "Similar testcases found: '%s'"
              /\ NoRepeats(res[1].message.args)
              /\ {res[1].message.args[n] : n \in 1..Len(res[1].message.args)}
                     = {suite.testcases[i].name : i \in Implicated}
              /\ \E i \in Implicated :
                     res[1].linenumber = suite.testcases[i].linenumber

\* Three compared test cases, two of them similar and of one name, the
\* third unlike them: one violation that lists the one name once.
C6_Witness ==
    /\ Cardinality(Compared) = 3
    /\ Cardinality(Implicated) = 2
    /\ \E res \in Results("TestCasesTooSimilar") :
          Len(res) = 1 /\ Len(res[1].message.args) = 1

\* The violations of a result, without their order.
Violations(res) == {res[p] : p \in 1..Len(res)}

FirstApply(rule) ==
    CASE rule = "PeriodInSuiteName" -> {PeriodInSuiteNameResult(suite.name)}
      [] rule = "InvalidTable" -> {InvalidTableLoop(suite.tables, 1, <<>>)}
      [] rule = "DuplicateKeywordNames" ->
            {DuplicateLoop(rule, "Duplicate keyword name '%s'", suite.keywords,
                           1, <<>>, <<>>).reported}
      [] rule = "DuplicateTestNames" ->
            {DuplicateLoop(rule, "Duplicate testcase name '%s'", suite.testcases,
                           1, <<>>, <<>>).reported}
      [] rule = "RequireSuiteDocumentation" ->
            {RequireSuiteDocumentationResult(suite.tables)}
      [] rule = "TestCasesTooSimilar" ->
            IF Implicated = {} THEN {<<>>}
            ELSE { <<report(rule, "Similar testcases found: '%s'", names,
                            suite.testcases[first].linenumber)>> :
                     first \in Implicated,
                     names \in Orders({suite.testcases[i].name : i \in Implicated}) }

\* C9: no apply changes the suite, and whatever a rule was applied to
\* before, what it reports for a suite is what it reports when that suite
\* is the first one it is applied to.
C9_RulesKeepNoState ==
    /\ [](\A rule \in Rules : Results(rule) \subseteq FirstApply(rule))
    /\ [][loads' = loads => suite' = suite]_vars

\* DuplicateKeywordNames was applied to an earlier suite and then to a suite
\* whose only keyword is "ab": it reports nothing.
C9_Witness ==
    /\ "DuplicateKeywordNames" \in earlier
    /\ suite.keywords = KeywordsNamed(<<<<"a", "b">>>>)
    /\ Results("DuplicateKeywordNames") = {<<>>}

=============================================================================
